---- MODULE Spec2Model ----
(***************************************************************************)
(* Telegram bot relaying free-text messages to a conversational AI         *)
(* backend (Dify), with auxiliary commands and an inline echo.             *)
(*   app.py          webhook front end (Starlette route + update_queue)    *)
(*   polling-app.py  long-polling front end                                *)
(* Each front end registers the same seven handlers on a python-telegram-  *)
(* bot Application, which dispatches the queued updates one at a time.     *)
(* A handler is modelled by one step per stretch of code between two       *)
(* awaits; the outcome of each outbound call is an input of the step.      *)
(* chat.send_action, the AI backend and the image API can fail; the calls  *)
(* that send a reply (reply_text, reply_photo, answer) are taken to return.*)
(***************************************************************************)
EXTENDS Naturals, Sequences, FiniteSets, TLC

\* ------------------------------------------------------------------ bounds
MaxQueue == 1          \* updates waiting in an Application's update_queue

\* ------------------------------------------------------------------ values
Users == {42, 43}      \* update.effective_user.id

first_name(u) == IF u = 42 THEN "Alice" ELSE "Bob"

\* str(update.effective_user.id)
str(u) == IF u = 42 THEN "42" ELSE "43"

Absent == "<absent>"   \* key not in a dict / keyword argument not passed
None == "<None>"       \* Python None
JsonNull == "<null>"   \* JSON null in a response body
Missing == "<missing>" \* field not present in a response body

ConvIds == {"c1", "c2"}

\* what user_data[u]["dify_conversation_id"] can be
SessionValues == ConvIds \cup {None, Absent}

\* message texts; a text starting with "/" is a bot command
CommandTexts == {"/start", "/help", "/cat", "/hello", "/resetconversation", "/foo"}
PlainTexts == {"Hi"}
QueryTexts == {"", "abc"}

\* fixed reply texts
ErrorText == "I encountered an error while processing your message."
NoAnswerText == "No response from AI"
ResetText == "Your conversation has been reset. Let's start fresh!"
NoResetText == "No active conversation to reset."
CatErrorText == "Sorry, I couldn't fetch a cat picture right now."
CatUrl == "http://x/cat.png"
HelpText == "Available commands: /start /help /cat /hello /resetconversation"

\* ------------------------------------------------- outcomes of outbound calls
\* chat.send_action(action="typing")
TypingOutcomes == {"ok", "error"}

\* dify_client.create_chat_message(...) followed by raise_for_status(), json()
NoBody == [answer |-> Missing, conversation_id |-> Missing]
AiFailures ==
    { [status |-> s, body |-> NoBody] :
        s \in {"transport_error", "http_error", "bad_json"} }
AiSuccesses ==
    { [status |-> "ok", body |-> [answer |-> a, conversation_id |-> c]] :
        a \in {"Fine", Missing}, c \in ConvIds \cup {JsonNull, Missing} }
AiOutcomes == AiFailures \cup AiSuccesses

\* client.get("https://api.thecatapi.com/v1/images/search")
CatOutcomes == {"request_error", "http_error", "bad_json", "empty_list", "no_url", "ok"}

\* The environment of one update: how the outbound calls made while handling
\* it turn out.  <<>> leaves each outcome open until the call is made; <<e>>
\* fixes them beforehand.
FreeEnv == <<>>
NoAi == [status |-> "ok", body |-> NoBody]
FixedEnv(typing, ai, c) == <<[typing |-> typing, ai |-> ai, cat |-> c]>>

TypingOf(env) == IF env = <<>> THEN TypingOutcomes ELSE {env[1].typing}
AiOf(env) == IF env = <<>> THEN AiOutcomes ELSE {env[1].ai}
CatOf(env) == IF env = <<>> THEN CatOutcomes ELSE {env[1].cat}

\* ------------------------------------------------------------------ updates
\* InboundEvent: a message (command or free text) or an inline query
\* User 42 sends every kind of update; user 43, there to have a second
\* session, sends the two kinds that touch one.
Updates ==
    { [user |-> 42, type |-> "message", text |-> t, env |-> FreeEnv] :
        t \in CommandTexts \cup PlainTexts }
    \cup
    { [user |-> 42, type |-> "inline_query", text |-> q, env |-> FreeEnv] :
        q \in QueryTexts }
    \cup
    { [user |-> 43, type |-> "message", text |-> t, env |-> FreeEnv] :
        t \in {"/resetconversation"} \cup PlainTexts }

NoUpdate == [user |-> 0, type |-> "none", text |-> "", env |-> FreeEnv]

\* filters.COMMAND
IsCommand(upd) == upd.type = "message" /\ upd.text \in CommandTexts
\* filters.TEXT
IsText(upd) == upd.type = "message"

\* ------------------------------------------------------------ python helpers
\* dict.get(key, default) on a parsed JSON object: JSON null parses to None
DictGet(field, default) ==
    IF field = Missing THEN default
    ELSE IF field = JsonNull THEN None
    ELSE field

\* ------------------------------------------------------------ handler tasks
\* One task per Application: the handler coroutine being run, or the last one
\* that ran.  pc is where it is suspended; requests / out are what it has sent
\* to the AI backend / to Telegram so far; pre is the user's session when the
\* handler was entered; raised tells an exception left the handler; typing,
\* ai, chat_data and cat are what its outbound calls returned; after_reset
\* (history) tells the update is the user's first free text since a reset.
IdleTask ==
    [pc |-> "idle", handler |-> "none", ev |-> NoUpdate, pre |-> Absent,
     requests |-> <<>>, out |-> <<>>, raised |-> FALSE, response_text |-> "",
     typing |-> "none", ai |-> "none", chat_data |-> NoBody, cat |-> "none",
     after_reset |-> FALSE]

\* the AI exchange a task made went through (no exception in the try block)
ExchangeOk(t) == t.ai = "ok"

TextReply(t) == [method |-> "reply_text", body |-> t, results |-> <<>>]
PhotoReply(url) == [method |-> "reply_photo", body |-> url, results |-> <<>>]
InlineAnswer(res) == [method |-> "answer", body |-> "", results |-> res]

Send(t, msg) == [t EXCEPT !.out = Append(@, msg), !.pc = "done"]
Raise(t) == [t EXCEPT !.raised = TRUE, !.pc = "done"]

Ctx(ud, t) == [user_data |-> ud, task |-> t]

\* dify_client.create_chat_message(user, inputs, query[, conversation_id], response_mode)
ChatRequest(u, text, cid) ==
    [user |-> str(u), name |-> first_name(u), query |-> text,
     conversation_id |-> cid, response_mode |-> "blocking"]

\* ================================================================== app.py
VARIABLES
    user_data,     \* context.user_data: per user, the value stored under
                   \* "dify_conversation_id", or Absent
    update_queue,  \* application.update_queue
    task,          \* the handler the Application is running, or ran last
    http,          \* the last response of the webhook route
    last_post,     \* what telegram_webhook did with the last request: "none"
                   \* so far, "enqueued", "dropped" (logger.error), or
                   \* "enqueued_after_drop" (history: enqueued, and an earlier
                   \* request had been dropped)
    reset_since    \* history: users with no free text handled since their reset

\* -------------------------------------------------------------- the handlers
start(ud, t) ==
    Ctx(ud, Send(t, TextReply("Hello " \o first_name(t.ev.user)
                     \o "! I'm your Telegram Bot. Type /help for available commands.")))

help_command(ud, t) == Ctx(ud, Send(t, TextReply(HelpText)))

hello(ud, t) == Ctx(ud, Send(t, TextReply("Hello " \o first_name(t.ev.user))))

\* except (httpx.RequestError, KeyError): a failed connection is a RequestError
\* and data[0]["url"] on an object without "url" a KeyError; raise_for_status()
\* raises HTTPStatusError, json() a ValueError and [][0] an IndexError, none of
\* which the clause names
CatCaught(o) == o \in {"request_error", "no_url"}

cat(ud, t, o) ==
    LET t1 == [t EXCEPT !.cat = o] IN
    IF o = "ok" THEN Ctx(ud, Send(t1, PhotoReply(CatUrl)))
    ELSE IF CatCaught(o) THEN Ctx(ud, Send(t1, TextReply(CatErrorText)))
    ELSE Ctx(ud, Raise(t1))

\* (variant: the reply is sent but the key is not deleted)
reset_conversation_keeps(ud, t) ==
    LET u == t.ev.user IN
    IF ud[u] # Absent
    THEN Ctx(ud, Send(t, TextReply(ResetText)))
    ELSE Ctx(ud, Send(t, TextReply(NoResetText)))

\* (variant: no test for the key; pop and the reset reply in every case)
reset_conversation_blind(ud, t) ==
    Ctx([ud EXCEPT ![t.ev.user] = Absent], Send(t, TextReply(ResetText)))

reset_conversation(ud, t) ==
    LET u == t.ev.user IN
    IF ud[u] # Absent
    THEN Ctx([ud EXCEPT ![u] = Absent], Send(t, TextReply(ResetText)))
    ELSE Ctx(ud, Send(t, TextReply(NoResetText)))

\* (variant: the stored id is never passed on)
RequestFor_no_id(ud, u, text) == ChatRequest(u, text, Absent)

\* lines 142-149 / 157-167: the request of the exchange; conversation_id is
\* passed only when one is stored
RequestFor(ud, u, text) ==
    IF ud[u] = Absent
    THEN ChatRequest(u, text, Absent)
    ELSE LET conversation_id == ud[u] IN ChatRequest(u, text, conversation_id)

\* (variant: every successful exchange stores the id it returned)
StoreAfter_overwrite(ud, u, o) ==
    IF o.status = "ok"
    THEN [ud EXCEPT ![u] = DictGet(o.body.conversation_id, None)]
    ELSE ud

\* (variant: one conversation id for the whole bot, stored under every user)
StoreAfter_shared(ud, u, o) ==
    IF ud[u] = Absent /\ o.status = "ok"
    THEN [v \in DOMAIN ud |-> DictGet(o.body.conversation_id, None)]
    ELSE ud

\* (variant: a failed exchange forgets the conversation)
StoreAfter_drop_failed(ud, u, o) ==
    IF o.status # "ok" THEN [ud EXCEPT ![u] = Absent]
    ELSE IF ud[u] = Absent
    THEN [ud EXCEPT ![u] = DictGet(o.body.conversation_id, None)]
    ELSE ud

\* (variant: a null or missing conversation_id is not stored)
StoreAfter_skip_none(ud, u, o) ==
    IF ud[u] = Absent /\ o.status = "ok" /\ DictGet(o.body.conversation_id, None) # None
    THEN [ud EXCEPT ![u] = DictGet(o.body.conversation_id, None)]
    ELSE ud

\* (variant: the id is stored before the response has been checked)
StoreAfter_eager(ud, u, o) ==
    IF ud[u] = Absent
    THEN [ud EXCEPT ![u] = DictGet(o.body.conversation_id, None)]
    ELSE ud

\* lines 151-155 / 169-170: what the exchange leaves in user_data; only the
\* branch without a stored id writes, and only after raise_for_status() and
\* json() have returned
StoreAfter(ud, u, o) ==
    IF ud[u] = Absent /\ o.status = "ok"
    THEN [ud EXCEPT ![u] = DictGet(o.body.conversation_id, None)]
    ELSE ud

\* lines 156 / 171 / 173-175
ResponseText(o) ==
    IF o.status = "ok" THEN DictGet(o.body.answer, NoAnswerText) ELSE ErrorText

\* lines 142-149 / 159-167: the session is read and create_chat_message is
\* called; the client is synchronous and the call is not awaited, so the
\* handler stays inside it, on the event loop's thread, until it returns
create_chat_message(ud, t) ==
    Ctx(ud, [t EXCEPT !.requests = Append(@, RequestFor(ud, t.ev.user, t.ev.text)),
                      !.pc = "create_chat_message"])

\* (variant: a failed exchange is tried again)
Exchange_retry(ud, t, o) ==
    IF o.status # "ok"
    THEN Ctx(ud, [t EXCEPT !.ai = o.status, !.pc = "handle_message"])
    ELSE Ctx(StoreAfter(ud, t.ev.user, o),
             [t EXCEPT !.ai = o.status,
                       !.chat_data = o.body,
                       !.response_text = ResponseText(o),
                       !.pc = "reply_text"])

\* lines 150-156 / 168-175: the call has returned or thrown; the rest of the
\* try block and its except clause
Exchange(ud, t, o) ==
    LET u == t.ev.user IN
    Ctx(StoreAfter(ud, u, o),
        [t EXCEPT !.ai = o.status,
                  !.chat_data = o.body,
                  !.response_text = ResponseText(o),
                  !.pc = "reply_text"])

\* line 132 returning, then the try block up to the await of line 178; an
\* exception of send_action is outside the try block and leaves the handler
handle_message(ud, t, typing) ==
    LET t1 == [t EXCEPT !.typing = typing] IN
    IF typing = "error" THEN Ctx(ud, Raise(t1)) ELSE create_chat_message(ud, t1)

\* line 178
handle_message_reply(ud, t) == Ctx(ud, Send(t, TextReply(t.response_text)))

\* (variant: the query text as it is, without the "Empty query" default)
inline_query_raw(ud, t) ==
    LET query == t.ev.text
    IN Ctx(ud, Send(t, InlineAnswer(<<[title |-> "Echo", content |-> query]>>)))

inline_query(ud, t) ==
    LET query == t.ev.text
        content == IF query # "" THEN query ELSE "Empty query"
    IN Ctx(ud, Send(t, InlineAnswer(<<[title |-> "Echo", content |-> content]>>)))

\* ------------------------------------------------------------ registration
\* application.add_handler(...), in order; the first handler whose check
\* accepts the update handles it
CommandHandler(command, callback) == [kind |-> "command", command |-> command, callback |-> callback]
InlineQueryHandler(callback) == [kind |-> "inline", command |-> "", callback |-> callback]
MessageHandler(callback) == [kind |-> "text_not_command", command |-> "", callback |-> callback]

handlers ==
    << CommandHandler("start", "start"),
       CommandHandler("help", "help_command"),
       CommandHandler("cat", "cat"),
       CommandHandler("hello", "hello"),
       CommandHandler("resetconversation", "reset_conversation"),
       InlineQueryHandler("inline_query"),
       MessageHandler("handle_message") >>

\* (variant: MessageHandler(filters.TEXT, ...), without ~filters.COMMAND)
check_update_any_text(h, upd) ==
    CASE h.kind = "command" -> IsCommand(upd) /\ upd.text = "/" \o h.command
      [] h.kind = "inline" -> upd.type = "inline_query"
      [] h.kind = "text_not_command" -> IsText(upd)

check_update(h, upd) ==
    CASE h.kind = "command" -> IsCommand(upd) /\ upd.text = "/" \o h.command
      [] h.kind = "inline" -> upd.type = "inline_query"
      [] h.kind = "text_not_command" -> IsText(upd) /\ ~IsCommand(upd)

\* the callbacks of the handlers of hs that accept upd, in registration order
RECURSIVE Matching(_, _)
Matching(hs, upd) ==
    IF hs = <<>> THEN <<>>
    ELSE (IF check_update(Head(hs), upd) THEN <<Head(hs).callback>> ELSE <<>>)
         \o Matching(Tail(hs), upd)

Route(hs, upd) ==
    LET m == Matching(hs, upd) IN IF m = <<>> THEN "none" ELSE Head(m)

\* ========================================================== polling-app.py
VARIABLES
    p_user_data,     \* context.user_data of the polling Application
    p_update_queue,  \* its update_queue, filled by the Updater
    p_task,          \* the handler it is running, or ran last
    pending          \* updates the platform holds for the next getUpdates

p_start(ud, t) ==
    Ctx(ud, Send(t, TextReply("Hello " \o first_name(t.ev.user)
                     \o "! I'm your Telegram Bot. Type /help for available commands.")))

p_help_command(ud, t) == Ctx(ud, Send(t, TextReply(HelpText)))

p_hello(ud, t) == Ctx(ud, Send(t, TextReply("Hello " \o first_name(t.ev.user))))

\* except (httpx.RequestError, KeyError), as in app.py
p_CatCaught(o) == o \in {"request_error", "no_url"}

p_cat(ud, t, o) ==
    LET t1 == [t EXCEPT !.cat = o] IN
    IF o = "ok" THEN Ctx(ud, Send(t1, PhotoReply(CatUrl)))
    ELSE IF p_CatCaught(o) THEN Ctx(ud, Send(t1, TextReply(CatErrorText)))
    ELSE Ctx(ud, Raise(t1))

p_reset_conversation(ud, t) ==
    LET u == t.ev.user IN
    IF ud[u] # Absent
    THEN Ctx([ud EXCEPT ![u] = Absent], Send(t, TextReply(ResetText)))
    ELSE Ctx(ud, Send(t, TextReply(NoResetText)))

\* lines 131-138 / 146-156
p_RequestFor(ud, u, text) ==
    IF ud[u] = Absent
    THEN ChatRequest(u, text, Absent)
    ELSE LET conversation_id == ud[u] IN ChatRequest(u, text, conversation_id)

\* (variant: the polling file stores the id of every successful exchange)
p_StoreAfter_overwrite(ud, u, o) ==
    IF o.status = "ok"
    THEN [ud EXCEPT ![u] = DictGet(o.body.conversation_id, None)]
    ELSE ud

\* lines 140-144 / 158-159
p_StoreAfter(ud, u, o) ==
    IF ud[u] = Absent /\ o.status = "ok"
    THEN [ud EXCEPT ![u] = DictGet(o.body.conversation_id, None)]
    ELSE ud

\* lines 145 / 160 / 162-164
p_ResponseText(o) ==
    IF o.status = "ok" THEN DictGet(o.body.answer, NoAnswerText) ELSE ErrorText

\* lines 131-138 / 148-156
p_create_chat_message(ud, t) ==
    Ctx(ud, [t EXCEPT !.requests = Append(@, p_RequestFor(ud, t.ev.user, t.ev.text)),
                      !.pc = "create_chat_message"])

\* lines 139-145 / 157-164
p_Exchange(ud, t, o) ==
    LET u == t.ev.user IN
    Ctx(p_StoreAfter(ud, u, o),
        [t EXCEPT !.ai = o.status,
                  !.chat_data = o.body,
                  !.response_text = p_ResponseText(o),
                  !.pc = "reply_text"])

\* line 121 returning, then lines 129-164
p_handle_message(ud, t, typing) ==
    LET t1 == [t EXCEPT !.typing = typing] IN
    IF typing = "error" THEN Ctx(ud, Raise(t1)) ELSE p_create_chat_message(ud, t1)

\* line 167
p_handle_message_reply(ud, t) == Ctx(ud, Send(t, TextReply(t.response_text)))

p_inline_query(ud, t) ==
    LET query == t.ev.text
        content == IF query # "" THEN query ELSE "Empty query"
    IN Ctx(ud, Send(t, InlineAnswer(<<[title |-> "Echo", content |-> content]>>)))

p_handlers ==
    << CommandHandler("start", "start"),
       CommandHandler("help", "help_command"),
       CommandHandler("cat", "cat"),
       CommandHandler("hello", "hello"),
       CommandHandler("resetconversation", "reset_conversation"),
       InlineQueryHandler("inline_query"),
       MessageHandler("handle_message") >>

appvars == <<user_data, update_queue, task, http, last_post, reset_since>>
pvars == <<p_user_data, p_update_queue, p_task, pending>>
vars == <<appvars, pvars>>

\* ------------------------------------------------------ Application dispatch
\* Application.process_update: the updates of update_queue are taken one at a
\* time (concurrent_updates is left at its default); an exception leaving a
\* handler is logged by the Application, which goes on with the next update
Begin(ud, upd, cb) ==
    [IdleTask EXCEPT !.pc = IF cb = "none" THEN "done" ELSE cb,
                     !.handler = cb, !.ev = upd, !.pre = ud[upd.user]]

Quiet(t) == t.pc \in {"idle", "done"}

\* the handler is inside the synchronous create_chat_message call: the thread
\* that runs the event loop is held, and no other coroutine of it can run
LoopHeld(t) == t.pc = "create_chat_message"

\* starlette Response(): status 200, empty body
Response == [route |-> "POST /", status |-> 200, content |-> ""]
NoResponse == [route |-> "none", status |-> 0, content |-> ""]

WebhookFaults == {"bad_json", "bad_update", "put_error"}

\* (variant: no try / except, so a failure becomes the server's 500 response)
telegram_webhook_unguarded(upd, fault) ==
    /\ ~LoopHeld(task)
    /\ IF fault = "none"
       THEN /\ Len(update_queue) < MaxQueue
            /\ update_queue' = Append(update_queue, upd)
            /\ last_post' = IF last_post \in {"dropped", "enqueued_after_drop"}
                            THEN "enqueued_after_drop" ELSE "enqueued"
            /\ http' = Response
       ELSE /\ last_post' = "dropped"
            /\ http' = [Response EXCEPT !.status = 500, !.content = "Internal Server Error"]
            /\ UNCHANGED update_queue
    /\ UNCHANGED <<user_data, task, reset_since>>

\* telegram_webhook: request.json(), Update.de_json, update_queue.put inside
\* try / except Exception; Response() whatever happened
telegram_webhook(upd, fault) ==
    /\ ~LoopHeld(task)
    /\ IF fault = "none"
       THEN /\ Len(update_queue) < MaxQueue
            /\ update_queue' = Append(update_queue, upd)
            /\ last_post' = IF last_post \in {"dropped", "enqueued_after_drop"}
                            THEN "enqueued_after_drop" ELSE "enqueued"
       ELSE /\ last_post' = "dropped"
            /\ UNCHANGED update_queue
    /\ http' = Response
    /\ UNCHANGED <<user_data, task, reset_since>>

App_dispatch ==
    /\ Quiet(task)
    /\ update_queue # <<>>
    /\ LET upd == Head(update_queue)
           cb == Route(handlers, upd)
       IN IF cb = "handle_message"
          THEN /\ task' = [Begin(user_data, upd, cb) EXCEPT
                              !.after_reset = (upd.user \in reset_since)]
               /\ reset_since' = reset_since \ {upd.user}
          ELSE /\ task' = Begin(user_data, upd, cb)
               /\ UNCHANGED reset_since
    /\ update_queue' = Tail(update_queue)
    /\ UNCHANGED <<user_data, http, last_post>>
    /\ UNCHANGED pvars

\* a handler step: the context it leaves becomes the state
AppStep(ctx) ==
    /\ user_data' = ctx.user_data
    /\ task' = ctx.task
    /\ reset_since' = IF task.pc = "reset_conversation"
                      THEN reset_since \cup {task.ev.user} ELSE reset_since
    /\ UNCHANGED <<update_queue, http, last_post>>
    /\ UNCHANGED pvars

App_start == task.pc = "start" /\ AppStep(start(user_data, task))
App_help_command == task.pc = "help_command" /\ AppStep(help_command(user_data, task))
App_hello == task.pc = "hello" /\ AppStep(hello(user_data, task))
App_cat ==
    /\ task.pc = "cat"
    /\ \E o \in CatOf(task.ev.env) : AppStep(cat(user_data, task, o))
App_reset_conversation ==
    task.pc = "reset_conversation" /\ AppStep(reset_conversation(user_data, task))
App_handle_message ==
    /\ task.pc = "handle_message"
    /\ \E typing \in TypingOf(task.ev.env) :
         AppStep(handle_message(user_data, task, typing))
App_create_chat_message ==
    /\ LoopHeld(task)
    /\ \E o \in AiOf(task.ev.env) : AppStep(Exchange(user_data, task, o))
App_handle_message_reply ==
    task.pc = "reply_text" /\ AppStep(handle_message_reply(user_data, task))
App_inline_query == task.pc = "inline_query" /\ AppStep(inline_query(user_data, task))

Post ==
    \E fault \in WebhookFaults \cup {"none"} :
      \E upd \in (IF fault = "none" THEN Updates ELSE {NoUpdate}) :
         telegram_webhook(upd, fault) /\ UNCHANGED pvars

Init ==
    /\ user_data = [u \in Users |-> Absent]
    /\ update_queue = <<>>
    /\ task = IdleTask
    /\ http = NoResponse
    /\ last_post = "none"
    /\ reset_since = {}
    /\ p_user_data = [u \in Users |-> Absent]
    /\ p_update_queue = <<>>
    /\ p_task = IdleTask
    /\ pending = <<>>

Next ==
    \/ Post
    \/ App_dispatch
    \/ App_start
    \/ App_help_command
    \/ App_hello
    \/ App_cat
    \/ App_reset_conversation
    \/ App_handle_message
    \/ App_create_chat_message
    \/ App_handle_message_reply
    \/ App_inline_query

Spec == Init /\ [][Next]_vars

\* The event loop resumes a handler that is ready to run, and the blocking
\* call comes back with a response or an exception
FairSpec ==
    /\ Init /\ [][Next]_vars
    /\ WF_vars(App_handle_message)
    /\ WF_vars(App_create_chat_message)
    /\ WF_vars(App_handle_message_reply)

\* ------------------------------------------------------ the polling front end
\* application.run_polling: the Updater fetches what the platform holds and
\* puts it on update_queue, in order
Poll_fetch ==
    /\ ~LoopHeld(p_task)
    /\ pending # <<>>
    /\ p_update_queue' = p_update_queue \o pending
    /\ pending' = <<>>
    /\ UNCHANGED <<p_user_data, p_task>>
    /\ UNCHANGED appvars

Poll_dispatch ==
    /\ Quiet(p_task)
    /\ p_update_queue # <<>>
    /\ p_task' = Begin(p_user_data, Head(p_update_queue),
                       Route(p_handlers, Head(p_update_queue)))
    /\ p_update_queue' = Tail(p_update_queue)
    /\ UNCHANGED <<p_user_data, pending>>
    /\ UNCHANGED appvars

PollStep(ctx) ==
    /\ p_user_data' = ctx.user_data
    /\ p_task' = ctx.task
    /\ UNCHANGED <<p_update_queue, pending>>
    /\ UNCHANGED appvars

Poll_start == p_task.pc = "start" /\ PollStep(p_start(p_user_data, p_task))
Poll_help_command ==
    p_task.pc = "help_command" /\ PollStep(p_help_command(p_user_data, p_task))
Poll_hello == p_task.pc = "hello" /\ PollStep(p_hello(p_user_data, p_task))
Poll_cat ==
    /\ p_task.pc = "cat"
    /\ \E o \in CatOf(p_task.ev.env) : PollStep(p_cat(p_user_data, p_task, o))
Poll_reset_conversation ==
    p_task.pc = "reset_conversation"
        /\ PollStep(p_reset_conversation(p_user_data, p_task))
Poll_handle_message ==
    /\ p_task.pc = "handle_message"
    /\ \E typing \in TypingOf(p_task.ev.env) :
         PollStep(p_handle_message(p_user_data, p_task, typing))
Poll_create_chat_message ==
    /\ LoopHeld(p_task)
    /\ \E o \in AiOf(p_task.ev.env) : PollStep(p_Exchange(p_user_data, p_task, o))
Poll_handle_message_reply ==
    p_task.pc = "reply_text" /\ PollStep(p_handle_message_reply(p_user_data, p_task))
Poll_inline_query ==
    p_task.pc = "inline_query" /\ PollStep(p_inline_query(p_user_data, p_task))

\* ------------------------------------------- both front ends on the same input
\* The environments an update can meet: one outcome for each outbound call
\* its handler makes
EnvsFor(upd) ==
    IF upd.type = "message" /\ upd.text \in PlainTexts
    THEN { FixedEnv("ok", o, "ok") : o \in AiOutcomes }
         \cup { FixedEnv("error", NoAi, "ok") }
    ELSE IF upd.type = "message" /\ upd.text = "/cat"
    THEN { FixedEnv("ok", NoAi, c) : c \in CatOutcomes }
    ELSE { FixedEnv("ok", NoAi, "ok") }

Settled ==
    /\ update_queue = <<>> /\ Quiet(task)
    /\ p_update_queue = <<>> /\ Quiet(p_task) /\ pending = <<>>

\* The platform delivers the next update to both deployments, once both have
\* finished the one before: a POST to the webhook, and an entry for getUpdates
Feed ==
    /\ Settled
    /\ \E upd \in Updates : \E env \in EnvsFor(upd) :
         /\ telegram_webhook([upd EXCEPT !.env = env], "none")
         /\ pending' = Append(pending, [upd EXCEPT !.env = env])
    /\ UNCHANGED <<p_user_data, p_update_queue, p_task>>

NextEq ==
    \/ Feed
    \/ App_dispatch
    \/ App_start
    \/ App_help_command
    \/ App_hello
    \/ App_cat
    \/ App_reset_conversation
    \/ App_handle_message
    \/ App_create_chat_message
    \/ App_handle_message_reply
    \/ App_inline_query
    \/ Poll_fetch
    \/ Poll_dispatch
    \/ Poll_start
    \/ Poll_help_command
    \/ Poll_hello
    \/ Poll_cat
    \/ Poll_reset_conversation
    \/ Poll_handle_message
    \/ Poll_create_chat_message
    \/ Poll_handle_message_reply
    \/ Poll_inline_query

SpecEq == Init /\ [][NextEq]_vars

TypeOK ==
    /\ user_data \in [Users -> SessionValues]
    /\ Len(update_queue) <= MaxQueue
    /\ last_post \in {"none", "enqueued", "dropped", "enqueued_after_drop"}

\* ===================================================================== claims
IsRelay(t) == t.handler = "handle_message"
Finished(t, h) == t.handler = h /\ t.pc = "done"
Returned(t) == DictGet(t.chat_data.conversation_id, None)
AllCarry(t, cid) == \A i \in 1..Len(t.requests) : t.requests[i].conversation_id = cid

C2_FailureKeepsSession ==
    (IsRelay(task) /\ task.ai \in {"transport_error", "http_error", "bad_json"}) =>
        /\ user_data[task.ev.user] = task.pre
        /\ ~task.raised
        /\ task.response_text = ErrorText
        /\ task.pc = "reply_text" => task.out = <<>>
        /\ task.pc = "done" => task.out = <<TextReply(ErrorText)>>

C2_Witness ==
    /\ Finished(task, "handle_message")
    /\ task.ai = "bad_json" /\ task.pre = "c1"
    /\ user_data[task.ev.user] = "c1"
    /\ task.out = <<TextReply(ErrorText)>>

\* C3: handling one free-text message of a user with no stored id issues
\* exactly one AI-backend request, and it carries no conversation_id.
C3_OneRequestWithoutId ==
    (Finished(task, "handle_message") /\ task.pre = Absent) =>
        /\ Len(task.requests) = 1
        /\ task.requests[1].conversation_id = Absent

\* C4: the request issued for a free-text message of a user whose session
\* stores C carries conversation_id = C (one request once the typing signal
\* has gone out), for the user who sent the message.
C4_RequestCarriesStored ==
    (IsRelay(task) /\ task.pre # Absent) =>
        /\ AllCarry(task, task.pre)
        /\ \A i \in 1..Len(task.requests) : task.requests[i].user = str(task.ev.user)
        /\ task.typing = "ok" => Len(task.requests) = 1

C4_Witness ==
    /\ Finished(task, "handle_message") /\ task.pre = "c2"
    /\ Len(task.requests) = 1 /\ task.requests[1].conversation_id = "c2"

\* C5: /resetconversation leaves no stored id in any session state, replies
\* with the reset text when an id was stored, and the user's next free-text
\* message goes to the AI backend without a conversation_id.
C5_ResetClears ==
    /\ Finished(task, "reset_conversation") =>
          /\ user_data[task.ev.user] = Absent
          /\ task.pre # Absent => task.out = <<TextReply(ResetText)>>
    /\ \A u \in reset_since : user_data[u] = Absent
    /\ (IsRelay(task) /\ task.after_reset) =>
          /\ task.pre = Absent
          /\ AllCarry(task, Absent)
          /\ task.typing = "ok" => Len(task.requests) = 1

C5_Witness ==
    /\ Finished(task, "handle_message") /\ task.after_reset
    /\ Len(task.requests) = 1 /\ task.requests[1].conversation_id = Absent
    /\ user_data[task.ev.user] = "c2"

\* C6: /resetconversation with no stored id replies "No active conversation
\* to reset." and changes no session; a second reset leaves what the first left.
ResetUpdate(u) ==
    [user |-> u, type |-> "message", text |-> "/resetconversation", env |-> FreeEnv]
ResetOf(ud, u) ==
    reset_conversation(ud, Begin(ud, ResetUpdate(u), "reset_conversation"))

C6_ResetIdempotent ==
    /\ (Finished(task, "reset_conversation") /\ task.pre = Absent) =>
          /\ task.out = <<TextReply(NoResetText)>>
          /\ user_data[task.ev.user] = Absent
    /\ \A u \in Users :
          /\ user_data[u] = Absent =>
                /\ ResetOf(user_data, u).user_data = user_data
                /\ ResetOf(user_data, u).task.out = <<TextReply(NoResetText)>>
          /\ ResetOf(ResetOf(user_data, u).user_data, u).user_data
                = ResetOf(user_data, u).user_data

C6_Witness ==
    /\ Finished(task, "reset_conversation") /\ task.pre = Absent
    /\ task.out = <<TextReply(NoResetText)>>
    /\ \E u \in Users : user_data[u] # Absent

\* C7: every outcome of the image-API call of /cat ends in exactly one reply
\* and no escaping exception: the photo on success, the fixed apology (and no
\* photo) on a request error, an error status or a malformed / empty body.
C7_CatAlwaysReplies ==
    Finished(task, "cat") =>
        /\ ~task.raised
        /\ task.out = IF task.cat = "ok" THEN <<PhotoReply(CatUrl)>>
                                         ELSE <<TextReply(CatErrorText)>>

\* C8: if the typing signal fails, handle_message still makes the AI exchange
\* and sends a reply, and no exception leaves the handler.
C8_TypingBestEffort ==
    (Finished(task, "handle_message") /\ task.typing = "error") =>
        /\ ~task.raised
        /\ Len(task.requests) = 1
        /\ Len(task.out) = 1

\* C9: every POST to the webhook path gets the empty success response, whether
\* the update was enqueued or the request failed; a failed request enqueues
\* and dispatches nothing; updates posted after it are still enqueued (at the
\* tail) and dispatched (from the head). A POST that arrives while a handler
\* holds the event loop waits for the loop and is then served the same way.
C9_WebhookAlwaysAnswers ==
    /\ [](last_post # "none" => http = [route |-> "POST /", status |-> 200, content |-> ""])
    /\ []((last_post = "dropped" /\ Len(update_queue) < MaxQueue /\ ~LoopHeld(task)) =>
              \A upd \in Updates : ENABLED telegram_webhook(upd, "none"))
    /\ []((update_queue # <<>> /\ Quiet(task)) => ENABLED App_dispatch)
    /\ [][ /\ (last_post' = "dropped" /\ last_post # "dropped") =>
                 UNCHANGED <<update_queue, task, user_data>>
           /\ Len(update_queue') > Len(update_queue) =>
                 /\ SubSeq(update_queue', 1, Len(update_queue)) = update_queue
                 /\ last_post' \in {"enqueued", "enqueued_after_drop"}
           /\ Len(update_queue') < Len(update_queue) =>
                 /\ update_queue' = Tail(update_queue)
                 /\ task'.ev = Head(update_queue) ]_vars

C9_Witness ==
    /\ last_post = "enqueued_after_drop"
    /\ update_queue = <<>>
    /\ task.pc = "done" /\ task.out # <<>>
    /\ http.status = 200

\* C10: fed the same updates and the same outcomes of the outbound calls, the
\* webhook and the polling front end have, once both have handled an update,
\* chosen the same handler, issued the same AI requests, sent the same replies,
\* let the same exceptions out, and hold the same sessions.
Obs(t) ==
    [ev |-> t.ev, handler |-> t.handler, requests |-> t.requests, out |-> t.out,
     raised |-> t.raised]

C10_SameObservations ==
    Settled => (Obs(task) = Obs(p_task) /\ user_data = p_user_data)

C10_Witness ==
    /\ Settled
    /\ Finished(task, "handle_message") /\ Finished(p_task, "handle_message")
    /\ ExchangeOk(p_task) /\ p_task.pre = "c1" /\ Returned(p_task) = "c2"
    /\ p_user_data[p_task.ev.user] = "c1"
    /\ \E u \in Users : p_user_data[u] = Absent


\* C11: while the AI exchange of a free-text message is outstanding (the
\* request has been issued, the response has not come back) no handler step
\* holds the scheduler: the webhook route can still take a POST, which is what
\* would let a second message of the same user read the session before the
\* first one writes it.
C11_LoopFreeDuringExchange ==
    (IsRelay(task) /\ task.pc = "create_chat_message") =>
        ENABLED telegram_webhook(NoUpdate, "bad_json")

\* C12 (as stated): every update the Application takes from its queue, a
\* command outside the five registered ones included, is accepted by exactly
\* one handler and handled by it.
C12_ExactlyOneHandler ==
    task.pc # "idle" =>
        /\ Len(Matching(handlers, task.ev)) = 1
        /\ task.handler = Head(Matching(handlers, task.ev))

\* the callback the registrations of main() give each kind of update
RegisteredFor(upd) ==
    CASE upd.type = "inline_query" -> "inline_query"
      [] upd.type = "message" /\ upd.text = "/start" -> "start"
      [] upd.type = "message" /\ upd.text = "/help" -> "help_command"
      [] upd.type = "message" /\ upd.text = "/cat" -> "cat"
      [] upd.type = "message" /\ upd.text = "/hello" -> "hello"
      [] upd.type = "message" /\ upd.text = "/resetconversation" -> "reset_conversation"
      [] upd.type = "message" /\ upd.text \in PlainTexts -> "handle_message"
      [] OTHER -> "none"

\* C12 (amended): every update is taken from the queue once and accepted by
\* at most one handler; the five registered commands, free text and inline
\* queries are handled by exactly one handler, their own; a command is never
\* relayed to the AI backend and free text never reaches a command handler;
\* a command outside the five registered ones is accepted by no handler: it
\* gets no reply, issues no request and changes no session.
C12_AtMostOneHandler ==
    /\ [](task.pc # "idle" =>
            /\ Len(Matching(handlers, task.ev)) <= 1
            /\ task.handler = RegisteredFor(task.ev)
            /\ task.handler = "none" <=> Matching(handlers, task.ev) = <<>>
            /\ IsCommand(task.ev) =>
                  task.handler # "handle_message" /\ task.requests = <<>>
            /\ task.handler = "none" =>
                  /\ IsCommand(task.ev) /\ task.pc = "done"
                  /\ task.out = <<>> /\ task.requests = <<>> /\ ~task.raised
                  /\ user_data[task.ev.user] = task.pre)
    /\ [][ /\ task'.ev # task.ev =>
                /\ Quiet(task) /\ update_queue # <<>>
                /\ task'.ev = Head(update_queue)
                /\ update_queue' = Tail(update_queue)
           /\ update_queue' # update_queue /\ Len(update_queue') <= Len(update_queue) =>
                /\ update_queue' = Tail(update_queue)
                /\ task'.ev = Head(update_queue)
                /\ task'.handler = Route(handlers, Head(update_queue))
           /\ ~Quiet(task) => task'.handler = task.handler /\ task'.ev = task.ev ]_vars

C12_Witness ==
    /\ task.ev.type = "message" /\ task.ev.text = "/foo"
    /\ task.pc = "done" /\ task.handler = "none"
    /\ task.out = <<>> /\ task.requests = <<>>

\* C13: when the first successful exchange of a user with no stored id returns
\* a null or missing conversation_id, None is stored under the key; later free
\* text of that user takes the branch with a stored id and passes None as
\* conversation_id, leaving None stored; /resetconversation then deletes the
\* key and replies with the reset text, not with "No active conversation".
C13_NoneIsStored ==
    /\ (IsRelay(task) /\ ExchangeOk(task) /\ task.pre = Absent
            /\ task.chat_data.conversation_id \in {JsonNull, Missing}) =>
          user_data[task.ev.user] = None
    /\ (IsRelay(task) /\ task.pre = None) =>
          /\ AllCarry(task, None)
          /\ task.typing = "ok" => Len(task.requests) = 1
          /\ user_data[task.ev.user] = None
    /\ (Finished(task, "reset_conversation") /\ task.pre = None) =>
          /\ task.out = <<TextReply(ResetText)>>
          /\ user_data[task.ev.user] = Absent

C13_Witness ==
    /\ Finished(task, "reset_conversation") /\ task.pre = None
    /\ task.out = <<TextReply(ResetText)>>

\* C14: the stored conversation_id of a user changes only in a step of
\* handle_message or reset_conversation handling an update of that same user
\* (start, help_command, hello, cat, inline_query, the webhook route and the
\* dispatcher change no session), and every request issued for a message
\* carries its sender's id and the value its sender's own session held.
C14_SessionsIsolated ==
    /\ [](IsRelay(task) =>
            \A i \in 1..Len(task.requests) :
                /\ task.requests[i].user = str(task.ev.user)
                /\ task.requests[i].conversation_id = task.pre)
    /\ [][ /\ \A u \in Users :
                user_data'[u] # user_data[u] =>
                    /\ task.ev.user = u
                    /\ task.pc \in {"create_chat_message", "reset_conversation"}
                    /\ task.handler \in {"handle_message", "reset_conversation"}
           /\ Len(task'.requests) > Len(task.requests) =>
                task'.requests = Append(task.requests,
                    ChatRequest(task.ev.user, task.ev.text, user_data[task.ev.user])) ]_vars

C14_Witness ==
    /\ Finished(task, "handle_message") /\ ExchangeOk(task)
    /\ task.ev.user = 43 /\ task.pre = Absent /\ Returned(task) = "c2"
    /\ task.requests = <<ChatRequest(43, "Hi", Absent)>>
    /\ user_data[43] = "c2" /\ user_data[42] = "c1"

InlineUpdate(q) == [user |-> 42, type |-> "inline_query", text |-> q, env |-> FreeEnv]

\* C15: an inline query with text q is answered with exactly one result, an
\* article titled "Echo" whose content is q, or "Empty query" when q is
\* empty; the handler issues no request, sends nothing else, changes no
\* session, and its answer is the same whatever the sessions hold.
C15_InlineEcho ==
    /\ Finished(task, "inline_query") =>
          /\ task.ev.type = "inline_query"
          /\ task.out = << InlineAnswer(<< [title |-> "Echo",
                  content |-> IF task.ev.text = "" THEN "Empty query"
                              ELSE task.ev.text] >>) >>
          /\ Len(task.out[1].results) = 1
          /\ task.requests = <<>> /\ ~task.raised
          /\ user_data[task.ev.user] = task.pre
    /\ \A q \in QueryTexts : \A ud \in [Users -> SessionValues] :
          LET t == Begin(user_data, InlineUpdate(q), "inline_query") IN
          /\ inline_query(ud, t).user_data = ud
          /\ inline_query(ud, t).task = inline_query(user_data, t).task

C15_Witness ==
    /\ Finished(task, "inline_query") /\ task.ev.text = ""
    /\ task.out = <<InlineAnswer(<<[title |-> "Echo", content |-> "Empty query"]>>)>>
    /\ user_data[task.ev.user] = "c1"

\* C16: a value is stored for a user only by the return of a successful
\* exchange of that user that found none stored, and it is the id that
\* exchange returned; once stored it changes only by reset_conversation of
\* that user, which removes it; so every later exchange up to that reset,
\* successful or failed and whatever id comes back, carries that same id and
\* leaves it stored.
C16_StoredUntilReset ==
    /\ [](\A u \in Users :
            (IsRelay(task) /\ task.ev.user = u /\ task.pre # Absent) =>
                /\ user_data[u] = task.pre
                /\ AllCarry(task, task.pre))
    /\ [][ \A u \in Users :
              user_data'[u] # user_data[u] =>
                 IF user_data[u] = Absent
                 THEN /\ IsRelay(task) /\ task.ev.user = u
                      /\ task.pc = "create_chat_message"
                      /\ ExchangeOk(task')
                      /\ user_data'[u] = Returned(task')
                 ELSE /\ task.handler = "reset_conversation" /\ task.ev.user = u
                      /\ task.pc = "reset_conversation"
                      /\ user_data'[u] = Absent ]_vars

C16_Witness ==
    /\ Finished(task, "handle_message") /\ ExchangeOk(task)
    /\ task.pre = "c2" /\ task.chat_data.conversation_id = JsonNull
    /\ task.requests = <<ChatRequest(task.ev.user, "Hi", "c2")>>
    /\ user_data[task.ev.user] = "c2"

\* the text handle_message has to send for what the exchange gave
ReplyDue(t) ==
    IF t.ai = "ok"
    THEN (IF t.chat_data.answer = Missing THEN "No response from AI"
          ELSE t.chat_data.answer)
    ELSE "I encountered an error while processing your message."

\* C17: a free-text message given to handle_message never causes more than
\* one AI-backend request or more than one reply, and a reply is never sent
\* before the request; the handler always finishes, and when its typing
\* signal went out it finishes with exactly one request issued and exactly
\* one reply sent: the backend's answer (or "No response from AI" when the
\* answer is missing) after a successful exchange, the fixed apology after a
\* failed one.
C17_OneReplyAfterOneRequest ==
    /\ [](IsRelay(task) =>
            /\ Len(task.requests) <= 1 /\ Len(task.out) <= 1
            /\ task.out # <<>> =>
                  /\ Len(task.requests) = 1
                  /\ task.ai \in {"ok", "transport_error", "http_error", "bad_json"}
                  /\ task.out = <<TextReply(ReplyDue(task))>>)
    /\ (IsRelay(task) /\ task.pc = "handle_message")
          ~> (/\ Finished(task, "handle_message")
              /\ task.typing = "ok" =>
                    /\ Len(task.requests) = 1
                    /\ task.out = <<TextReply(ReplyDue(task))>>)

C17_Witness ==
    /\ Finished(task, "handle_message") /\ task.ai = "http_error"
    /\ task.pre = Absent /\ Len(task.requests) = 1
    /\ task.out = <<TextReply(ErrorText)>>
    /\ user_data[task.ev.user] = Absent

====
